---- MODULE Spec2Model ----
(***************************************************************************)
(* A model of pcprox.py: the bit-packed configuration fields of            *)
(* Configuration, and the PcProx protocol engine over a HID transport that *)
(* carries 8-byte feature reports; and of main of configure.py and of     *)
(* main of usbtest.py, which drive them.                                   *)
(*                                                                         *)
(* Python values are modelled as follows.  A bytes / bytearray object is a *)
(* sequence of integers 0..255; Python's 0-based index i is the sequence's *)
(* index i + 1.  An Optional value is a record [some, val].  The outcome   *)
(* of a call is a record whose status is "ok" or the name of the exception *)
(* the call raises.                                                        *)
(***************************************************************************)
EXTENDS Integers, Sequences, FiniteSets, TLC

VARIABLES
    config,     \* the Configuration object: [exists, pages]
    before,     \* config as it was when the last operation started
    last,       \* the last operation: [kind, field, arg, status, value]
    log,        \* the transport calls the last operation made, in order
    received,   \* per page, the payload frame last sent after its select frame
    elapsed,    \* ms slept since the last send_feature_report (-1: none yet)
    nops        \* operations performed in this session

vars == <<config, before, last, log, received, elapsed, nops>>

----------------------------------------------------------------------------
(* Bounds of the model *)

\* page contents the codec specification starts from
NumPatterns == 4
\* pages handed to the Configuration constructor: at most this many
MaxPageCount == 4
\* ... each of at most this many bytes
MaxPageLen == 9
\* messages handed to write and interact: at most this many bytes
MaxMsgLen == 9
\* operations on the engine in the wire specification
MaxWireOps == 2
\* operations in one session
MaxOps == 3
\* page indexes handed to set_config: at most this many
MaxSel == 2

\* the transport calls of an operation of which one may raise: the 1st to
\* the MaxFail-th
MaxFail == 7

\* the longest option list handed to the configure tool
MaxOptions == 1

----------------------------------------------------------------------------
(* Python integer operators on non-negative integers *)

RECURSIVE BitAnd(_, _)
BitAnd(a, b) ==
    IF a = 0 \/ b = 0 THEN 0
    ELSE (a % 2) * (b % 2) + 2 * BitAnd(a \div 2, b \div 2)

RECURSIVE BitOr(_, _)
BitOr(a, b) ==
    IF a = 0 THEN b
    ELSE IF b = 0 THEN a
    ELSE (IF a % 2 = 1 \/ b % 2 = 1 THEN 1 ELSE 0)
         + 2 * BitOr(a \div 2, b \div 2)

RECURSIVE BitXor(_, _)
BitXor(a, b) ==
    IF a = 0 THEN b
    ELSE IF b = 0 THEN a
    ELSE (IF a % 2 = b % 2 THEN 0 ELSE 1)
         + 2 * BitXor(a \div 2, b \div 2)

ShiftLeft(a, n) == a * (2 ^ n)

ShiftRight(a, n) == a \div (2 ^ n)

Min(a, b) == IF a < b THEN a ELSE b

\* the values one byte can hold
Byte == 0 .. 255

\* bytes(n): n zero bytes
ZeroBytes(n) == [i \in 1 .. n |-> 0]

----------------------------------------------------------------------------
(* Outcomes and Optional values *)

None == [some |-> FALSE, val |-> <<>>]

Some(v) == [some |-> TRUE, val |-> v]

\* the call returned; pages is the page store after it
Ok(pages, value) == [status |-> "ok", pages |-> pages, value |-> value]

\* the call raised exc; pages is the page store at that moment
Raise(exc, pages) == [status |-> exc, pages |-> pages, value |-> 0]

\* self.pages[page][pos] when both indexes are in range
InRange(pages, page, pos) ==
    /\ page + 1 \in 1 .. Len(pages)
    /\ pos + 1 \in 1 .. Len(pages[page + 1])

\* self.pages[page][pos] = v on a list of bytearrays
StoreByte(pages, page, pos, v) ==
    IF ~InRange(pages, page, pos) THEN Raise("IndexError", pages)
    ELSE IF v \notin Byte THEN Raise("ValueError", pages)
    ELSE Ok([pages EXCEPT ![page + 1][pos + 1] = v], 0)

----------------------------------------------------------------------------
(* _int_field, _bool_field, _char_field: the property declarations *)

\* max_value: Optional[int] = None
NoMaxValue == -1

\* _int_field taking the whole byte whatever first_bit and bit_len say
_int_fieldWholeByte(page, pos, first_bit, bit_len, multiplier, max_value) ==
    [kind       |-> "int",
     page       |-> page,
     pos        |-> pos,
     first_bit  |-> 0,
     bit_len    |-> 8,
     multiplier |-> multiplier,
     max_value  |-> IF max_value = NoMaxValue
                    THEN ((2 ^ bit_len) - 1) * multiplier
                    ELSE max_value]

\* The closure variables of one _int_field declaration.  max_value is
\* derived from bit_len as declared; bit_len is clamped afterwards.
_int_field(page, pos, first_bit, bit_len, multiplier, max_value) ==
    [kind       |-> "int",
     page       |-> page,
     pos        |-> pos,
     first_bit  |-> first_bit,
     bit_len    |-> IF first_bit > 0 THEN Min(bit_len, 8 - first_bit)
                    ELSE bit_len,
     multiplier |-> multiplier,
     max_value  |-> IF max_value = NoMaxValue
                    THEN ((2 ^ bit_len) - 1) * multiplier
                    ELSE max_value]

_bool_field(page, pos, bit) ==
    [kind       |-> "bool",
     page       |-> page,
     pos        |-> pos,
     first_bit  |-> bit,
     bit_len    |-> 1,
     multiplier |-> 1,
     max_value  |-> 1]

\* int_prop = _int_field(page, pos)
_char_field(page, pos) ==
    [_int_field(page, pos, 0, 8, 1, NoMaxValue) EXCEPT !.kind = "char"]

\* IntGetter with the multiplication left out
IntGetterUnscaled(f, pages) ==
    IF ~InRange(pages, f.page, f.pos) THEN Raise("IndexError", pages)
    ELSE
    LET v0 == pages[f.page + 1][f.pos + 1]
        v1 == IF f.first_bit > 0 THEN ShiftRight(v0, f.first_bit) ELSE v0
        v2 == IF f.bit_len < 8 THEN BitAnd(v1, (2 ^ f.bit_len) - 1) ELSE v1
    IN  Ok(pages, v2)

\* _int_field.getter
IntGetter(f, pages) ==
    IF ~InRange(pages, f.page, f.pos) THEN Raise("IndexError", pages)
    ELSE
    LET v0 == pages[f.page + 1][f.pos + 1]
        v1 == IF f.first_bit > 0 THEN ShiftRight(v0, f.first_bit) ELSE v0
        v2 == IF f.bit_len < 8 THEN BitAnd(v1, (2 ^ f.bit_len) - 1) ELSE v1
        v3 == IF f.multiplier # 1 THEN v2 * f.multiplier ELSE v2
    IN  Ok(pages, v3)

\* OutOfRange with the upper limit left out
OutOfRangeBelowOnly(f, new_val) == new_val < 0

\* the guard of _int_field.setter
OutOfRange(f, new_val) == new_val > f.max_value \/ new_val < 0

\* PackedByte with the bits outside the field not kept
PackedByteClobbering(f, cur, new_val) ==
    LET partial == f.first_bit # 0 \/ f.bit_len # 8
        scaled  == new_val \div f.multiplier
        mask    == IF partial
                   THEN ShiftLeft((2 ^ f.bit_len) - 1, f.first_bit)
                   ELSE 255
        shifted == IF partial THEN ShiftLeft(scaled, f.first_bit) ELSE scaled
    IN  BitAnd(shifted, mask)

\* the byte _int_field.setter stores for new_val, the byte now being cur
PackedByte(f, cur, new_val) ==
    LET partial == f.first_bit # 0 \/ f.bit_len # 8
        scaled  == new_val \div f.multiplier
        mask    == IF partial
                   THEN ShiftLeft((2 ^ f.bit_len) - 1, f.first_bit)
                   ELSE 255
        old_val == IF partial THEN BitAnd(cur, BitXor(255, mask)) ELSE 0
        shifted == IF partial THEN ShiftLeft(scaled, f.first_bit) ELSE scaled
    IN  BitOr(BitAnd(shifted, mask), old_val)

\* _int_field.setter
IntSetter(f, pages, new_val) ==
    IF OutOfRange(f, new_val) THEN Raise("Exception", pages)
    ELSE IF (f.first_bit # 0 \/ f.bit_len # 8)
            /\ ~InRange(pages, f.page, f.pos)
    THEN Raise("IndexError", pages)
    ELSE StoreByte(pages, f.page, f.pos,
                   PackedByte(f,
                              IF InRange(pages, f.page, f.pos)
                              THEN pages[f.page + 1][f.pos + 1] ELSE 0,
                              new_val))

\* _bool_field.getter
BoolGetter(f, pages) ==
    IF ~InRange(pages, f.page, f.pos) THEN Raise("IndexError", pages)
    ELSE Ok(pages,
            BitAnd(ShiftRight(pages[f.page + 1][f.pos + 1], f.first_bit), 1)
              > 0)

\* the byte _bool_field.setter stores, the byte now being cur
ToggledByte(f, cur, new_val) ==
    IF new_val THEN BitOr(cur, ShiftLeft(1, f.first_bit))
    ELSE BitAnd(cur, BitXor(255, ShiftLeft(1, f.first_bit)))

\* _bool_field.setter
BoolSetter(f, pages, new_val) ==
    IF ~InRange(pages, f.page, f.pos) THEN Raise("IndexError", pages)
    ELSE StoreByte(pages, f.page, f.pos,
                   ToggledByte(f, pages[f.page + 1][f.pos + 1], new_val))

\* A value handed to a _char_field setter: an int, a bytes object, or an
\* object of another type (str, bytearray, None, float, ...).
PyInt(n) == [type |-> "int", int |-> n, bytes |-> <<>>]

PyBytes(s) == [type |-> "bytes", int |-> 0, bytes |-> s]

PyOther == [type |-> "other", int |-> 0, bytes |-> <<>>]

\* _char_field.getter: bytes([int_prop.fget(self)])
CharGetter(f, pages) ==
    LET r == IntGetter(f, pages)
    IN  IF r.status = "ok" THEN Ok(pages, <<r.value>>) ELSE r

\* CharSetter taking the first byte of a longer bytes object
CharSetterFirstByte(f, pages, new_val) ==
    IF new_val.type = "int" /\ new_val.int \notin Byte
    THEN Raise("ValueError", pages)
    ELSE
    LET converted == IF new_val.type = "int" THEN PyBytes(<<new_val.int>>)
                     ELSE new_val
    IN  IF converted.type # "bytes" THEN Raise("TypeError", pages)
        ELSE IF Len(converted.bytes) < 1 THEN Raise("TypeError", pages)
        ELSE IntSetter(f, pages, converted.bytes[1])

\* _char_field.setter
CharSetter(f, pages, new_val) ==
    IF new_val.type = "int" /\ new_val.int \notin Byte
    THEN Raise("ValueError", pages)          \* bytes([new_val])
    ELSE
    LET converted == IF new_val.type = "int" THEN PyBytes(<<new_val.int>>)
                     ELSE new_val
    IN  IF converted.type # "bytes" THEN Raise("TypeError", pages)
        ELSE IF Len(converted.bytes) # 1 THEN Raise("TypeError", pages)
        ELSE IntSetter(f, pages, converted.bytes[1])

----------------------------------------------------------------------------
(* class Configuration *)

\* The properties declared in the class body.
Fields ==
    [iFACDispLen        |-> _int_field(0, 0, 0, 8, 1, NoMaxValue),
     iIDDispLen         |-> _int_field(0, 1, 0, 8, 1, NoMaxValue),
     iLeadParityBitCnt  |-> _int_field(0, 2, 0, 4, 1, NoMaxValue),
     iTrailParityBitCnt |-> _int_field(0, 2, 4, 8, 1, NoMaxValue),
     iIDBitCnt          |-> _int_field(0, 3, 0, 8, 1, NoMaxValue),
     iTotalBitCnt       |-> _int_field(0, 4, 0, 8, 1, NoMaxValue),
     iFACIDDelim        |-> _char_field(0, 5),
     iELDelim           |-> _char_field(0, 6),
     bFixLenDsp         |-> _bool_field(0, 7, 0),
     bFrcBitCntEx       |-> _bool_field(0, 7, 1),
     bStripFac          |-> _bool_field(0, 7, 2),
     bSndFac            |-> _bool_field(0, 7, 3),
     bUseDelFac2Id      |-> _bool_field(0, 7, 4),
     bNoUseELChar       |-> _bool_field(0, 7, 5),
     bSndOnRx           |-> _bool_field(0, 7, 6),
     bHaltKBSnd         |-> _bool_field(0, 7, 7),
     iBitStrmTO         |-> _int_field(1, 1, 0, 8, 4, NoMaxValue),
     iIDHoldTO          |-> _int_field(1, 2, 0, 8, 50, NoMaxValue),
     iIDLockOutTm       |-> _int_field(1, 3, 0, 8, 50, NoMaxValue),
     iUSBKeyPrsTm       |-> _int_field(1, 4, 0, 8, 4, NoMaxValue),
     iUSBKeyRlsTm       |-> _int_field(1, 5, 0, 8, 4, NoMaxValue),
     bUse64Bit          |-> _bool_field(1, 6, 1),
     bPrxProEm          |-> _bool_field(1, 6, 3),
     bSndSFID           |-> _bool_field(1, 6, 4),
     bSndSFFC           |-> _bool_field(1, 6, 5),
     bSndSFON           |-> _bool_field(1, 6, 6),
     bUseNumKP          |-> _bool_field(1, 6, 7),
     iRedLEDState       |-> _bool_field(2, 0, 0),
     iGrnLEDState       |-> _bool_field(2, 0, 1),
     iBeeperState       |-> _bool_field(2, 0, 2),
     iRelayState        |-> _bool_field(2, 0, 3),
     bUseLeadChrs       |-> _bool_field(2, 1, 0),
     bAppCtrlsLED       |-> _bool_field(2, 1, 1),
     bDspHex            |-> _bool_field(2, 1, 2),
     bWiegInvData       |-> _bool_field(2, 1, 3),
     bBeepID            |-> _bool_field(2, 1, 4),
     bRevWiegBits       |-> _bool_field(2, 1, 5),
     bRevBytes          |-> _bool_field(2, 1, 6),
     bUseInvDataF       |-> _bool_field(2, 1, 7),
     iCrdGnChr0         |-> _char_field(2, 2),
     iCrdGnChr1         |-> _char_field(2, 3),
     iLeadChrCnt        |-> _int_field(2, 4, 0, 4, 1, 3),
     iTrailChrCnt       |-> _int_field(2, 4, 4, 8, 1, 3),
     iLeadChr0          |-> _char_field(2, 5),
     iLeadChr1          |-> _char_field(2, 6),
     iLeadChr2          |-> _char_field(2, 7)]

FieldNames == DOMAIN Fields

IntFieldNames == {n \in FieldNames : Fields[n].kind = "int"}

BoolFieldNames == {n \in FieldNames : Fields[n].kind = "bool"}

CharFieldNames == {n \in FieldNames : Fields[n].kind = "char"}

\* getattr(config, name)
GetAttr(name, pages) ==
    LET f == Fields[name]
    IN  CASE f.kind = "int"  -> IntGetter(f, pages)
          [] f.kind = "bool" -> BoolGetter(f, pages)
          [] f.kind = "char" -> CharGetter(f, pages)

\* Configuration.__init__: bytearray(page) of every page given, in order;
\* bytearray(None) raises TypeError.
ConfigurationInit(pagesIn) ==
    IF \E i \in 1 .. Len(pagesIn) : ~pagesIn[i].some
    THEN Raise("TypeError", <<>>)
    ELSE Ok([i \in 1 .. Len(pagesIn) |-> pagesIn[i].val], 0)

NoConfig == [exists |-> FALSE, pages |-> <<>>]

NoOp == [kind |-> "none", field |-> "", arg |-> 0, status |-> "ok", value |-> 0]

----------------------------------------------------------------------------
(* class PcProx: the protocol engine over the HID transport *)

\* NULL_MSG = bytes(8)
NULL_MSG == ZeroBytes(8)

\* sleep(0.001), in milliseconds
SleepMs == 1

\* The engine's run of one operation: the transport calls made so far, the
\* milliseconds slept since the last send, "ok" or the exception raised, and
\* which transport call of the run raises (0: none).
Start == [log |-> <<>>, elapsed |-> elapsed, status |-> "ok", fail |-> 0]

\* a run whose n-th transport call raises
StartFailing(n) == [Start EXCEPT !.fail = n]

\* the transport call about to be made is the one that raises
Raises(t) == t.fail = Len(t.log) + 1

\* self._dev.send_feature_report(data); gap is the time slept since the send
\* before it.  A call that raises is the last entry of the log.
SendFeatureReport(t, data) ==
    [t EXCEPT !.log = Append(@, [call |-> "send_feature_report",
                                 data |-> data, gap |-> t.elapsed]),
              !.elapsed = IF Raises(t) THEN @ ELSE 0,
              !.status = IF Raises(t) THEN "OSError" ELSE @]

\* self._dev.get_feature_report(1, 8), the device answering reply
GetFeatureReport(t, reply) ==
    [t     |-> [t EXCEPT !.log = Append(@, [call |-> "get_feature_report",
                                            data |-> <<1, 8>>,
                                            gap  |-> t.elapsed]),
                         !.status = IF Raises(t) THEN "OSError" ELSE @],
     value |-> reply]

\* sleep(ms / 1000)
Sleep(t, ms) == IF t.status # "ok" THEN t ELSE [t EXCEPT !.elapsed = @ + ms]

\* Write returning right after the send
WriteNoSleep(t, msg) ==
    IF t.status # "ok" THEN t
    ELSE IF Len(msg) > 8 THEN [t EXCEPT !.status = "Exception"]
    ELSE LET padded == IF Len(msg) < 8 THEN msg \o ZeroBytes(8 - Len(msg))
                       ELSE msg
         IN  SendFeatureReport(t, ZeroBytes(1) \o padded)

\* Write sending the report a second time when the send raises
WriteRetrying(t, msg) ==
    IF t.status # "ok" THEN t
    ELSE IF Len(msg) > 8 THEN [t EXCEPT !.status = "Exception"]
    ELSE LET padded == IF Len(msg) < 8 THEN msg \o ZeroBytes(8 - Len(msg))
                       ELSE msg
             first  == SendFeatureReport(t, ZeroBytes(1) \o padded)
         IN  IF first.status = "ok" THEN Sleep(first, SleepMs)
             ELSE Sleep(SendFeatureReport([first EXCEPT !.status = "ok"],
                                          ZeroBytes(1) \o padded), SleepMs)

\* PcProx.write
Write(t, msg) ==
    IF t.status # "ok" THEN t
    ELSE IF Len(msg) > 8 THEN [t EXCEPT !.status = "Exception"]
    ELSE LET padded == IF Len(msg) < 8 THEN msg \o ZeroBytes(8 - Len(msg))
                       ELSE msg
         IN  Sleep(SendFeatureReport(t, ZeroBytes(1) \o padded), SleepMs)

\* Read taking a report whose first byte is zero for no data
ReadFirstByteOnly(t, reply) ==
    IF t.status # "ok" THEN [t |-> t, value |-> None]
    ELSE LET g   == GetFeatureReport(t, reply)
             msg == g.value
         IN  [t     |-> g.t,
              value |-> IF g.t.status # "ok" \/ msg = <<>> \/ msg[1] = 0
                        THEN None ELSE Some(msg)]

\* PcProx.read
Read(t, reply) ==
    IF t.status # "ok" THEN [t |-> t, value |-> None]
    ELSE LET g   == GetFeatureReport(t, reply)
             msg == g.value
         IN  [t     |-> g.t,
              value |-> IF g.t.status # "ok" \/ msg = <<>> \/ msg = NULL_MSG
                        THEN None ELSE Some(msg)]

\* interact taking the report before it sends the command
InteractReadingFirst(t, msg, reply) ==
    LET r == Read(t, reply)
    IN  [t |-> Write(r.t, msg), value |-> r.value]

\* PcProx.interact
Interact(t, msg, reply) == Read(Write(t, msg), reply)

\* the state after one engine operation that ran as r.t and returned r.value
EngineStep(kind, arg, r) ==
    /\ last' = [kind |-> kind, field |-> "", arg |-> arg,
                status |-> r.t.status, value |-> r.value]
    /\ log' = r.t.log
    /\ elapsed' = r.t.elapsed
    /\ before' = config
    /\ nops' = nops + 1

\* dev.write(msg)
DoWrite(msg) ==
    /\ EngineStep("write", msg, [t |-> Write(Start, msg), value |-> None])
    /\ UNCHANGED <<config, received>>

\* dev.read()
DoRead(reply) ==
    /\ EngineStep("read", reply, Read(Start, reply))
    /\ UNCHANGED <<config, received>>

\* dev.interact(msg)
DoInteract(msg, reply) ==
    /\ EngineStep("interact", [msg |-> msg, reply |-> reply],
                  Interact(Start, msg, reply))
    /\ UNCHANGED <<config, received>>

----------------------------------------------------------------------------
(* class DeviceInfo, PcProx.get_device_info, PcProx.save_config,            *)
(* PcProx.end_config and PcProx.get_tag                                     *)

\* DeviceInfo reading the device type high byte first
DeviceInfoInitBigEndian(msg) ==
    IF ~msg.some THEN [status |-> "TypeError", value |-> None]
    ELSE IF Len(msg.val) # 8 THEN [status |-> "struct.error", value |-> None]
    ELSE LET minor_ver == msg.val[3]
             major_ver == msg.val[4]
         IN  [status |-> "ok",
              value  |-> Some([device_type |->
                                 BitOr(ShiftLeft(msg.val[6], 8), msg.val[7]),
                               firmware_version_tuple |->
                                 <<major_ver, ShiftRight(minor_ver, 4),
                                   BitAnd(minor_ver, 15)>>])]

\* DeviceInfo(msg): unpack('<2xBBxHx', msg) of what interact returned
DeviceInfoInit(msg) ==
    IF ~msg.some THEN [status |-> "TypeError", value |-> None]
    ELSE IF Len(msg.val) # 8 THEN [status |-> "struct.error", value |-> None]
    ELSE LET minor_ver == msg.val[3]
             major_ver == msg.val[4]
         IN  [status |-> "ok",
              value  |-> Some([device_type |->
                                 BitOr(msg.val[6], ShiftLeft(msg.val[7], 8)),
                               firmware_version_tuple |->
                                 <<major_ver, ShiftRight(minor_ver, 4),
                                   BitAnd(minor_ver, 15)>>])]

\* get_device_info taking no data for an all-zero description
GetDeviceInfoDefaulting(t, reply) ==
    LET r == Interact(t, <<138>>, reply)
        d == DeviceInfoInit(IF r.value.some THEN r.value ELSE Some(NULL_MSG))
    IN  IF r.t.status # "ok" THEN [t |-> r.t, value |-> None]
        ELSE [t |-> [r.t EXCEPT !.status = d.status], value |-> d.value]

\* PcProx.get_device_info, the device answering reply
GetDeviceInfo(t, reply) ==
    LET r == Interact(t, <<138>>, reply)
        d == DeviceInfoInit(r.value)
    IN  IF r.t.status # "ok" THEN [t |-> r.t, value |-> None]
        ELSE [t |-> [r.t EXCEPT !.status = d.status], value |-> d.value]

\* info = dev.get_device_info()
DoGetDeviceInfo(reply) ==
    /\ EngineStep("get_device_info", reply, GetDeviceInfo(Start, reply))
    /\ UNCHANGED <<config, received>>

\* PcProx.save_config(pages), pages None for the default 0x7
SaveConfig(t, pages) ==
    LET mask == IF pages.some THEN pages.val ELSE 7
    IN  IF t.status # "ok" THEN t
        ELSE IF mask \notin 0 .. 255 THEN [t EXCEPT !.status = "ValueError"]
        ELSE Write(t, <<144, mask>>)

\* end_config committing the pages as save_config() does
EndConfigSavingAll(t) == SaveConfig(t, None)

\* PcProx.end_config
EndConfig(t) == SaveConfig(t, Some(0))

\* dev.save_config(pages)
DoSaveConfig(pages) ==
    /\ EngineStep("save_config", pages,
                  [t |-> SaveConfig(Start, pages), value |-> None])
    /\ UNCHANGED <<config, received>>

\* dev.end_config()
DoEndConfig ==
    /\ EngineStep("end_config", None, [t |-> EndConfig(Start), value |-> None])
    /\ UNCHANGED <<config, received>>

\* s[:n] for n >= 0
Prefix(s, n) == SubSeq(s, 1, Min(n, Len(s)))

\* get_tag asking for the card info whether or not the card data came
GetTagAlwaysAskingInfo(t, replies) ==
    LET r1 == Interact(t, <<143>>, replies[1])
        r2 == Interact(r1.t, <<142>>, replies[2])
    IN  IF r2.t.status # "ok" \/ ~r1.value.some \/ ~r2.value.some
        THEN [t |-> r2.t, value |-> None]
        ELSE LET bit_length == r2.value.val[1]
                 buffer_byte_length == (bit_length + 7) \div 8
             IN  [t     |-> r2.t,
                  value |-> Some([data |-> Prefix(r1.value.val,
                                                  buffer_byte_length),
                                  bit_length |-> bit_length])]

\* get_tag rounding the byte count down
GetTagRoundingDown(t, replies) ==
    LET r1 == Interact(t, <<143>>, replies[1])
        r2 == Interact(r1.t, <<142>>, replies[2])
    IN  IF r1.t.status # "ok" \/ ~r1.value.some
        THEN [t |-> r1.t, value |-> None]
        ELSE IF r2.t.status # "ok" \/ ~r2.value.some
        THEN [t |-> r2.t, value |-> None]
        ELSE LET bit_length == r2.value.val[1]
                 buffer_byte_length == bit_length \div 8
             IN  [t     |-> r2.t,
                  value |-> Some([data |-> Prefix(r1.value.val,
                                                  buffer_byte_length),
                                  bit_length |-> bit_length])]

\* get_tag taking a bit length of zero for no tag
GetTagZeroIsAbsent(t, replies) ==
    LET r1 == Interact(t, <<143>>, replies[1])
        r2 == Interact(r1.t, <<142>>, replies[2])
    IN  IF r1.t.status # "ok" \/ ~r1.value.some
        THEN [t |-> r1.t, value |-> None]
        ELSE IF r2.t.status # "ok" \/ ~r2.value.some \/ r2.value.val[1] = 0
        THEN [t |-> r2.t, value |-> None]
        ELSE LET bit_length == r2.value.val[1]
                 buffer_byte_length == (bit_length + 7) \div 8
             IN  [t     |-> r2.t,
                  value |-> Some([data |-> Prefix(r1.value.val,
                                                  buffer_byte_length),
                                  bit_length |-> bit_length])]

\* PcProx.get_tag, the device answering replies[1] to 0x8f and replies[2] to
\* 0x8e; int(ceil(bit_length / 8.)) is (bit_length + 7) \div 8 on 0 .. 255
GetTag(t, replies) ==
    LET r1 == Interact(t, <<143>>, replies[1])
        r2 == Interact(r1.t, <<142>>, replies[2])
    IN  IF r1.t.status # "ok" \/ ~r1.value.some
        THEN [t |-> r1.t, value |-> None]
        ELSE IF r2.t.status # "ok" \/ ~r2.value.some
        THEN [t |-> r2.t, value |-> None]
        ELSE IF Len(r2.value.val) # 8
        THEN [t |-> [r2.t EXCEPT !.status = "struct.error"], value |-> None]
        ELSE LET bit_length == r2.value.val[1]
                 buffer_byte_length == (bit_length + 7) \div 8
             IN  [t     |-> r2.t,
                  value |-> Some([data |-> Prefix(r1.value.val,
                                                  buffer_byte_length),
                                  bit_length |-> bit_length])]

\* tag = dev.get_tag()
DoGetTag(replies) ==
    /\ EngineStep("get_tag", replies, GetTag(Start, replies))
    /\ UNCHANGED <<config, received>>

----------------------------------------------------------------------------
(* Configuration.generate_config, Configuration.set_config and             *)
(* PcProx.get_config                                                       *)

CONFIG_PARAMS ==
    << <<"tsIDBitCnts", <<"iLeadParityBitCnt", "iTrailParityBitCnt",
                          "iIDBitCnt", "iTotalBitCnt">> >>,
       <<"tsCfgFlags", <<"bFixLenDsp", "bFrcBitCntEx", "bStripFac", "bSndFac",
                         "bUseDelFac2Id", "bNoUseELChar", "bSndOnRx",
                         "bHaltKBSnd">> >>,
       <<"tsIDDispParms", <<"iFACIDDelim", "iELDelim", "iIDDispLen",
                            "iFACDispLen">> >>,
       <<"tsTimeParms", <<"iBitStrmTO", "iIDHoldTO", "iIDLockOutTm",
                          "iUSBKeyPrsTm", "iUSBKeyRlsTm">> >>,
       <<"tsCfgFlags2", <<"bUseLeadChrs", "bDspHex", "bWiegInvData",
                          "bUseInvDataF", "bRevWiegBits", "bBeepID",
                          "bRevBytes">> >>,
       <<"tsCfgFlags3", <<"bUseNumKP", "bSndSFON", "bSndSFFC", "bSndSFID",
                          "bPrxProEm", "bUse64Bit">> >>,
       <<"tsIDDispParms2", <<"iLeadChrCnt", "iLeadChr0", "iLeadChr1",
                             "iLeadChr2", "iCrdGnChr0", "iCrdGnChr1">> >>,
       <<"tsIDDispParms3", <<"iTrailChrCnt">> >>,
       <<"tsLEDCtrl", <<"bAppCtrlsLED", "iRedLEDState", "iGrnLEDState">> >>,
       <<"tsBprRlyCtrl", <<"iBeeperState", "iRelayState">> >> >>

\* the integer '%d' prints for the value of property key
DumpValue(key, pages) ==
    LET v == GetAttr(key, pages).value
    IN  CASE Fields[key].kind = "char" -> v[1]
          [] Fields[key].kind = "bool" -> (IF v THEN 1 ELSE 0)
          [] OTHER -> v

\* the lines of one section: '/ section', 'key = value' per key, ''
SectionLines(entry, pages) ==
    << <<"/", entry[1]>> >>
    \o [i \in 1 .. Len(entry[2]) |->
          <<entry[2][i], "=", DumpValue(entry[2][i], pages)>>]
    \o << <<>> >>

RECURSIVE DumpFrom(_, _)
DumpFrom(n, pages) ==
    IF n > Len(CONFIG_PARAMS) THEN <<>>
    ELSE SectionLines(CONFIG_PARAMS[n], pages) \o DumpFrom(n + 1, pages)

\* Configuration.generate_config, read to its end
GenerateConfig(pages) ==
    IF \E name \in FieldNames : GetAttr(name, pages).status # "ok"
    THEN Raise("IndexError", pages)
    ELSE Ok(pages, DumpFrom(1, pages))

\* the 8 bytes a sent report carries after its report-id byte
Payload(e) == SubSeq(e.data, 2, Len(e.data))

\* SetConfigLoop sending each page before its select frame
RECURSIVE SetConfigLoopPageFirst(_, _, _)
SetConfigLoopPageFirst(pages, st, sel) ==
    IF sel = <<>> THEN st
    ELSE LET i  == Head(sel)
             t1 == IF i + 1 \notin 1 .. Len(pages)
                   THEN [st.t EXCEPT !.status = "IndexError"]
                   ELSE Write(st.t, pages[i + 1])
             t2 == Write(t1, <<BitOr(128, i)>>)
             rc == IF t2.status = "ok"
                   THEN [st.received EXCEPT ![i] = Some(pages[i + 1])]
                   ELSE st.received
         IN  SetConfigLoopPageFirst(pages, [t |-> t2, received |-> rc],
                                    Tail(sel))

\* the loop of Configuration.set_config over the page indexes sel;
\* st.received follows the frames: the payload last sent for each page
RECURSIVE SetConfigLoop(_, _, _)
SetConfigLoop(pages, st, sel) ==
    IF sel = <<>> THEN st
    ELSE LET i  == Head(sel)
             t1 == Write(st.t, <<BitOr(128, i)>>)
             t2 == IF t1.status # "ok" THEN t1
                   ELSE IF i + 1 \notin 1 .. Len(pages)
                   THEN [t1 EXCEPT !.status = "IndexError"]
                   ELSE Write(t1, pages[i + 1])
             rc == IF t2.status = "ok"
                   THEN [st.received EXCEPT ![i] = Some(pages[i + 1])]
                   ELSE st.received
         IN  SetConfigLoop(pages, [t |-> t2, received |-> rc], Tail(sel))

\* Configuration.set_config(dev, pages): pages None or a sequence of indexes
SetConfig(pages, st, sel) ==
    SetConfigLoop(pages, st, IF sel.some THEN sel.val ELSE <<0, 1, 2>>)

\* config.set_config(dev, sel)
DoSetConfig(sel) ==
    LET r == SetConfig(config.pages, [t |-> Start, received |-> received], sel)
    IN  /\ EngineStep("set_config", sel, [t |-> r.t, value |-> None])
        /\ received' = r.received
        /\ UNCHANGED config

\* get_config taking a page that did not come for a page of zero bytes
GetConfigDefaulting(t, replies) ==
    LET r0 == Interact(t, <<128>>, replies[1])
        r1 == Interact(r0.t, <<129>>, replies[2])
        r2 == Interact(r1.t, <<130>>, replies[3])
        ret == <<r0.value, r1.value, r2.value>>
        c  == ConfigurationInit([i \in 1 .. 3 |->
                 IF ret[i].some THEN ret[i] ELSE Some(NULL_MSG)])
    IN  IF r2.t.status # "ok" THEN [t |-> r2.t, value |-> NoConfig]
        ELSE [t |-> r2.t, value |-> [exists |-> TRUE, pages |-> c.pages]]

\* PcProx.get_config, the device answering replies[1..3]
GetConfig(t, replies) ==
    LET r0 == Interact(t, <<128>>, replies[1])
        r1 == Interact(r0.t, <<129>>, replies[2])
        r2 == Interact(r1.t, <<130>>, replies[3])
        c  == ConfigurationInit(<<r0.value, r1.value, r2.value>>)
    IN  IF r2.t.status # "ok" THEN [t |-> r2.t, value |-> NoConfig]
        ELSE IF c.status # "ok"
        THEN [t |-> [r2.t EXCEPT !.status = c.status], value |-> NoConfig]
        ELSE [t |-> r2.t, value |-> [exists |-> TRUE, pages |-> c.pages]]

\* config = dev.get_config()
DoGetConfig(replies) ==
    LET r == GetConfig(Start, replies)
    IN  /\ EngineStep("get_config", replies, r)
        /\ config' = IF r.t.status = "ok" THEN r.value ELSE config
        /\ UNCHANGED received

----------------------------------------------------------------------------
(* Field operations on a Configuration, as one step each *)

SetKinds == {"set_int", "set_bool", "set_char"}

\* the state after one property assignment whose outcome is r
FieldStep(kind, name, arg, r) ==
    /\ config' = [config EXCEPT !.pages = r.pages]
    /\ before' = config
    /\ last' = [kind |-> kind, field |-> name, arg |-> arg,
                status |-> r.status, value |-> r.value]
    /\ log' = <<>>
    /\ nops' = nops + 1
    /\ UNCHANGED <<received, elapsed>>

\* config.<name> = v, for an _int_field
SetIntField(name, v) ==
    FieldStep("set_int", name, v, IntSetter(Fields[name], config.pages, v))

\* SetBoolField writing the changed page back to the device at once
SetBoolFieldWritingBack(name, v) ==
    LET r  == BoolSetter(Fields[name], config.pages, v)
        wb == SetConfig(r.pages, [t |-> Start, received |-> received],
                        Some(<<Fields[name].page>>))
    IN  /\ config' = [config EXCEPT !.pages = r.pages]
        /\ before' = config
        /\ last' = [kind |-> "set_bool", field |-> name, arg |-> v,
                    status |-> r.status, value |-> r.value]
        /\ log' = wb.t.log
        /\ elapsed' = wb.t.elapsed
        /\ received' = wb.received
        /\ nops' = nops + 1

\* config.<name> = v, for a _bool_field
SetBoolField(name, v) ==
    FieldStep("set_bool", name, v, BoolSetter(Fields[name], config.pages, v))

\* config.<name> = v, for a _char_field
SetCharField(name, v) ==
    FieldStep("set_char", name, v, CharSetter(Fields[name], config.pages, v))

\* config.<name>
GetField(name) ==
    FieldStep("get", name, 0, GetAttr(name, config.pages))

\* list(config.generate_config())
DoGenerateConfig ==
    FieldStep("generate_config", "", 0, GenerateConfig(config.pages))

----------------------------------------------------------------------------
(* The codec specification: one field operation applied to a Configuration *)
(* built from three 8-byte pages.                                          *)

\* byte o of page p under page contents k: all zero, all ones, then mixed
PatternByte(k, p, o) ==
    CASE k = 0 -> 0
      [] k = 1 -> 255
      [] OTHER -> (k * 89 + (8 * p + o) * 37) % 256

PatternPages(k) ==
    [p \in 1 .. 3 |-> Some([o \in 1 .. 8 |-> PatternByte(k, p - 1, o - 1)])]

\* the integers tried on an _int_field: every multiple of the multiplier from
\* just below 0 to just above 255 * multiplier, and the values next to them
IntInputs(f) ==
    {k * f.multiplier + r :
        k \in -1 .. 256,
        r \in {0, 1, f.multiplier - 1} \cap (0 .. f.multiplier - 1)}

\* the values tried on a _char_field
CharInputs ==
    {PyInt(n) : n \in -1 .. 256}
    \cup {PyBytes(<<b>>) : b \in Byte}
    \cup {PyBytes(<<>>), PyBytes(<<0, 0>>), PyBytes(<<65, 66>>),
          PyBytes(<<1, 2, 3>>), PyOther}

Fresh(pagesIn) ==
    /\ config = [exists |-> TRUE, pages |-> ConfigurationInit(pagesIn).pages]
    /\ before = config
    /\ last = NoOp
    /\ log = <<>>
    /\ received = [p \in 0 .. 2 |-> None]
    /\ elapsed = -1
    /\ nops = 0

CodecInit == \E k \in 0 .. NumPatterns - 1 : Fresh(PatternPages(k))

CodecSetInt ==
    /\ nops = 0
    /\ \E name \in IntFieldNames :
         \E v \in IntInputs(Fields[name]) : SetIntField(name, v)

CodecSetBool ==
    /\ nops = 0
    /\ \E name \in BoolFieldNames : \E v \in BOOLEAN : SetBoolField(name, v)

CodecSetChar ==
    /\ nops = 0
    /\ \E name \in CharFieldNames : \E v \in CharInputs : SetCharField(name, v)

CodecGet ==
    /\ nops = 0
    /\ \E name \in FieldNames : GetField(name)

CodecNext == CodecSetInt \/ CodecSetBool \/ CodecSetChar \/ CodecGet

SpecCodec == CodecInit /\ [][CodecNext]_vars

\* The getter specification: every property read on pages whose bytes all
\* hold the same value, for every value of a byte.
GetInit == \E b \in Byte : Fresh([p \in 1 .. 3 |-> Some([o \in 1 .. 8 |-> b])])

GetNext == CodecGet

SpecGet == GetInit /\ [][GetNext]_vars

----------------------------------------------------------------------------
(* Properties of the field codec *)

\* bit i of v, by arithmetic
Bit(v, i) == (v \div (2 ^ i)) % 2

\* the bits of its byte a field occupies
FieldBits(f) == f.first_bit .. (f.first_bit + f.bit_len - 1)

\* the byte a field lives in
FieldByte(f, pages) == pages[f.page + 1][f.pos + 1]

LastField == Fields[last.field]

\* C1: for every integer field and every v in [0, max] that is an exact
\* multiple of the field's multiplier, set(v) succeeds and a get() after it
\* returns v, whatever the pages held.
C1_SetThenGetReturnsValue ==
    (/\ last.kind = "set_int"
     /\ last.arg \in 0 .. LastField.max_value
     /\ last.arg % LastField.multiplier = 0)
    => /\ last.status = "ok"
       /\ IntGetter(LastField, config.pages).value = last.arg

\* C2: for every integer field, set(v) with v < 0 or v > max raises the range
\* error and the three pages are the same bytes before and after the call
\* (max is the field's max_value: the explicit one, else the one derived from
\* the declared bit length).
C2_OutOfRangeRejectedUnchanged ==
    (/\ last.kind = "set_int"
     /\ (last.arg < 0 \/ last.arg > LastField.max_value))
    => /\ last.status = "Exception"
       /\ config.pages = before.pages

C2_Witness ==
    /\ last.kind = "set_int"
    /\ last.field = "iIDHoldTO"
    /\ last.arg = 255 * 50 + 1
    /\ last.status = "Exception"
    /\ config.pages = before.pages
    /\ FieldByte(LastField, config.pages) # 255

\* C3: a successful set on a boolean, integer or character field changes only
\* the bits the field occupies in its own byte: the other bits of that byte,
\* every other byte of every page and the length of every page (8 for a
\* Configuration built from 8-byte pages) are as before.
C3_SetChangesOnlyFieldBits ==
    (last.kind \in SetKinds /\ last.status = "ok")
    => /\ Len(config.pages) = Len(before.pages)
       /\ \A p \in 1 .. Len(before.pages) :
            /\ Len(config.pages[p]) = Len(before.pages[p])
            /\ Len(before.pages[p]) = 8 => Len(config.pages[p]) = 8
            /\ \A o \in 1 .. Len(before.pages[p]) :
                 (p - 1 # LastField.page \/ o - 1 # LastField.pos)
                 => config.pages[p][o] = before.pages[p][o]
       /\ FieldByte(LastField, config.pages) \in Byte
       /\ \A i \in (0 .. 7) \ FieldBits(LastField) :
            Bit(FieldByte(LastField, config.pages), i)
              = Bit(FieldByte(LastField, before.pages), i)

\* a 4-bit field written over a byte whose other nibble is not zero, the
\* written nibble changing
C3_Witness ==
    /\ last.kind = "set_int"
    /\ last.status = "ok"
    /\ last.field = "iLeadParityBitCnt"
    /\ last.arg = 9
    /\ FieldByte(LastField, before.pages) \div 16 # 0
    /\ FieldByte(LastField, before.pages) % 16 # 9
    /\ FieldByte(LastField, config.pages) % 16 = 9
    /\ FieldByte(LastField, config.pages) \div 16
         = FieldByte(LastField, before.pages) \div 16

\* C4: get on an integer field (page p, offset o, first bit b, width w,
\* multiplier m) returns ((byte >> b) masked to w bits) * m for every byte
\* value; get on a boolean field is true exactly when its bit is set.  With
\* page 0 byte 7 = 1, bFixLenDsp is true and the other seven flags of the byte
\* are false; with page 1 byte 1 = 5, iBitStrmTO is 20.
C4_GetDecodesField ==
    (last.kind = "get" /\ LastField.kind \in {"int", "bool"})
    => /\ last.status = "ok"
       /\ LastField.kind = "int" =>
            last.value
              = (((FieldByte(LastField, config.pages)
                     \div (2 ^ LastField.first_bit))
                  % (2 ^ LastField.bit_len)) * LastField.multiplier)
       /\ LastField.kind = "bool" =>
            (last.value
              <=> Bit(FieldByte(LastField, config.pages),
                      LastField.first_bit) = 1)
       /\ (config.pages[1][8] = 1 /\ last.field = "bFixLenDsp")
            => last.value = TRUE
       /\ (config.pages[1][8] = 1
           /\ last.field \in {"bFrcBitCntEx", "bStripFac", "bSndFac",
                              "bUseDelFac2Id", "bNoUseELChar", "bSndOnRx",
                              "bHaltKBSnd"})
            => last.value = FALSE
       /\ (config.pages[2][2] = 5 /\ last.field = "iBitStrmTO")
            => last.value = 20

C4_Witness ==
    /\ last.kind = "get"
    /\ last.field = "iBitStrmTO"
    /\ config.pages[2][2] = 5
    /\ last.value = 20

\* what C5 says of a _char_field set: it succeeds exactly on one byte or an
\* integer 0..255, storing that byte unscaled at the field's offset;
\* the rest is rejected with rejectInt (an integer outside 0..255) or
\* TypeError (anything else), the pages staying as they were.
CharSetContract(rejectInt) ==
    last.kind = "set_char" =>
      LET v == last.arg
          accepted == \/ v.type = "int" /\ v.int \in Byte
                      \/ v.type = "bytes" /\ Len(v.bytes) = 1
          byte == IF v.type = "int" THEN v.int ELSE v.bytes[1]
      IN  IF accepted
          THEN /\ last.status = "ok"
               /\ FieldByte(LastField, config.pages) = byte
          ELSE /\ last.status = (IF v.type = "int" THEN rejectInt
                                 ELSE "TypeError")
               /\ config.pages = before.pages

\* C5 as claimed: set on a character field succeeds exactly when given a
\* single byte or an integer 0-255 and stores that byte unscaled; every other
\* input, an integer outside 0-255 included, is rejected with TypeError and
\* leaves the pages unchanged.
C5_CharSetRejectsWithTypeError == CharSetContract("TypeError")

\* C5 as amended: as claimed, except that an integer outside 0-255 is rejected
\* with ValueError (raised by bytes([new_val])); a byte string of length 0 or
\* >= 2 and any other type are rejected with TypeError; every rejection
\* leaves the pages unchanged.
C5_CharSetRejectsIntWithValueError == CharSetContract("ValueError")

C5_Witness ==
    /\ last.kind = "set_char"
    /\ last.arg = PyInt(256)
    /\ last.status = "ValueError"
    /\ config.pages = before.pages

----------------------------------------------------------------------------
(* The constructor specification: Configuration(pages) on page lists of    *)
(* every count up to MaxPageCount, every page absent or of a length up to  *)
(* MaxPageLen.                                                             *)

\* Configuration(pagesIn)
Construct(pagesIn) ==
    LET r == ConfigurationInit(pagesIn)
    IN  /\ config' = IF r.status = "ok"
                     THEN [exists |-> TRUE, pages |-> r.pages]
                     ELSE config
        /\ before' = config
        /\ last' = [kind |-> "Configuration", field |-> "", arg |-> pagesIn,
                    status |-> r.status, value |-> 0]
        /\ log' = <<>>
        /\ nops' = nops + 1
        /\ UNCHANGED <<received, elapsed>>

\* a page handed to the constructor: None, or n bytes
PageInputs ==
    {None} \cup {Some([o \in 1 .. n |-> PatternByte(2, 0, o - 1)]) :
                    n \in 0 .. MaxPageLen}

RECURSIVE SeqsUpTo(_, _)
SeqsUpTo(S, n) ==
    IF n = 0 THEN {<<>>}
    ELSE LET shorter == SeqsUpTo(S, n - 1)
         IN  shorter \cup {Append(q, x) : q \in shorter, x \in S}

NoSession ==
    /\ config = NoConfig
    /\ before = NoConfig
    /\ last = NoOp
    /\ log = <<>>
    /\ received = [p \in 0 .. 2 |-> None]
    /\ elapsed = -1
    /\ nops = 0

CtorInit == NoSession

CtorConstruct ==
    /\ nops = 0
    /\ \E pagesIn \in SeqsUpTo(PageInputs, MaxPageCount) : Construct(pagesIn)

CtorNext == CtorConstruct

SpecCtor == CtorInit /\ [][CtorNext]_vars

\* C6: constructing a Configuration from fewer than 3 pages, or from any page
\* that is not exactly 8 bytes, fails with FormatError; no Configuration
\* whose pages are not exactly three 8-byte pages comes to exist.
C6_MalformedPagesRejected ==
    /\ (/\ last.kind = "Configuration"
        /\ \/ Len(last.arg) < 3
           \/ \E i \in 1 .. Len(last.arg) :
                ~last.arg[i].some \/ Len(last.arg[i].val) # 8)
       => last.status = "FormatError"
    /\ config.exists
       => /\ Len(config.pages) = 3
          /\ \A p \in 1 .. 3 : Len(config.pages[p]) = 8

----------------------------------------------------------------------------
(* The wire specification: write, read and interact on an engine, in any   *)
(* order, with messages of every length up to MaxMsgLen and with reports   *)
(* that are empty, all zero, zero but for one byte, or mixed.              *)

Messages ==
    {[i \in 1 .. n |-> PatternByte(k, 0, i - 1)] :
        n \in 0 .. MaxMsgLen, k \in 0 .. NumPatterns - 1}

Reports ==
    {<<>>}
    \cup {[i \in 1 .. 8 |-> IF i = j THEN b ELSE 0] :
            j \in 0 .. 8, b \in {128, 255}}
    \cup {[i \in 1 .. 8 |-> PatternByte(k, 0, i - 1)] :
            k \in 0 .. NumPatterns - 1}

WireInit == NoSession

WireWrite == nops < MaxWireOps /\ \E msg \in Messages : DoWrite(msg)

WireRead == nops < MaxWireOps /\ \E reply \in Reports : DoRead(reply)

WireInteract ==
    /\ nops < MaxWireOps
    /\ \E msg \in Messages : \E reply \in Reports : DoInteract(msg, reply)

WireNext == WireWrite \/ WireRead \/ WireInteract

SpecWire == WireInit /\ [][WireNext]_vars

\* C9: write(msg) with more than 8 bytes fails and sends nothing; with 8
\* bytes or fewer it sends exactly one feature report whose 8-byte payload is
\* msg followed by zero bytes, and returns after the settle pause, so that no
\* transport call of the engine starts less than the pause after a send.
C9_WritePadsSendsOnceThenSettles ==
    /\ last.kind = "write" =>
         IF Len(last.arg) > 8
         THEN last.status = "Exception" /\ log = <<>>
         ELSE /\ last.status = "ok"
              /\ Len(log) = 1
              /\ log[1].call = "send_feature_report"
              /\ Len(log[1].data) = 9
              /\ \A i \in 1 .. 8 :
                   log[1].data[i + 1]
                     = (IF i <= Len(last.arg) THEN last.arg[i] ELSE 0)
              /\ elapsed >= SleepMs
    /\ \A i \in 1 .. Len(log) : log[i].gap = -1 \/ log[i].gap >= SleepMs

\* a 5-byte message written right after another write
C9_Witness ==
    /\ last.kind = "write"
    /\ Len(last.arg) = 5
    /\ last.arg[5] # 0
    /\ Len(log) = 1
    /\ log[1].gap = SleepMs
    /\ log[1].data[6] = last.arg[5]
    /\ log[1].data[7] = 0

\* what read makes of a report
ReadResult(report) ==
    IF \A i \in 1 .. Len(report) : report[i] = 0 THEN None ELSE Some(report)

\* C10: read() returns None when the 8-byte report is all zero and the
\* report's 8 bytes unchanged when it is not; interact(msg) returns what the
\* read following its write returns.
C10_ReadMapsNullReportToNone ==
    /\ (last.kind = "read" /\ Len(last.arg) = 8)
       => /\ last.status = "ok"
          /\ last.value = ReadResult(last.arg)
    /\ (last.kind = "interact" /\ last.status = "ok"
        /\ Len(last.arg.reply) = 8)
       => /\ last.value = ReadResult(last.arg.reply)
          /\ Len(log) = 2
          /\ log[1].call = "send_feature_report"
          /\ log[2].call = "get_feature_report"

\* a report that is zero but for its last byte
C10_Witness ==
    /\ last.kind = "interact"
    /\ last.arg.reply = <<0, 0, 0, 0, 0, 0, 0, 128>>
    /\ last.value = Some(last.arg.reply)

----------------------------------------------------------------------------
(* The session specification: an engine, the Configuration read from the   *)
(* device, property accesses on it and write-backs, in any order, up to    *)
(* MaxOps operations.                                                      *)

\* the properties a session touches: each kind, on each page that has it
SessionFields ==
    {"iLeadParityBitCnt", "iFACIDDelim", "bHaltKBSnd",
     "iBitStrmTO", "bUse64Bit",
     "iRedLEDState", "iTrailChrCnt", "iLeadChr2"}

SessionIntInputs(f) == {f.multiplier, f.max_value, f.max_value + 1}

SessionCharInputs == {PyInt(65), PyBytes(<<0>>), PyOther}

\* what the device answers to the three page reads: its pages under
\* contents k (contents 0: all zero), page z - 1 unread (all zero) if z > 0
DeviceReplies(k, z) ==
    [p \in 1 .. 3 |-> IF p = z THEN NULL_MSG ELSE PatternPages(k)[p].val]

\* the page selections handed to set_config
Selections ==
    {None} \cup {Some(q) : q \in SeqsUpTo(0 .. 2, MaxSel)}

Init == NoSession

SessionGetConfig ==
    /\ nops < MaxOps
    /\ \E k \in 0 .. NumPatterns - 1 : \E z \in 0 .. 3 :
         DoGetConfig(DeviceReplies(k, z))

SessionSetInt ==
    /\ nops < MaxOps
    /\ config.exists
    /\ \E name \in SessionFields \cap IntFieldNames :
         \E v \in SessionIntInputs(Fields[name]) : SetIntField(name, v)

SessionSetBool ==
    /\ nops < MaxOps
    /\ config.exists
    /\ \E name \in SessionFields \cap BoolFieldNames :
         \E v \in BOOLEAN : SetBoolField(name, v)

SessionSetChar ==
    /\ nops < MaxOps
    /\ config.exists
    /\ \E name \in SessionFields \cap CharFieldNames :
         \E v \in SessionCharInputs : SetCharField(name, v)

SessionGet ==
    /\ nops < MaxOps
    /\ config.exists
    /\ \E name \in SessionFields : GetField(name)

SessionGenerateConfig ==
    /\ nops < MaxOps
    /\ config.exists
    /\ DoGenerateConfig

SessionSetConfig ==
    /\ nops < MaxOps
    /\ config.exists
    /\ \E sel \in Selections : DoSetConfig(sel)

\* what the device answers to 0x8a in a session
SessionInfoReplies == {NULL_MSG, PatternPages(2)[1].val}

\* what the device answers to 0x8f and to 0x8e in a session
SessionTagReplies ==
    {<<trigger, info>> :
        trigger \in {NULL_MSG, PatternPages(3)[1].val},
        info \in {NULL_MSG, <<12, 0, 0, 0, 0, 0, 0, 0>>}}

\* the page masks handed to save_config
SessionMasks == {None, Some(0), Some(5), Some(255)}

SessionGetDeviceInfo ==
    /\ nops < MaxOps
    /\ \E reply \in SessionInfoReplies : DoGetDeviceInfo(reply)

SessionGetTag ==
    /\ nops < MaxOps
    /\ \E replies \in SessionTagReplies : DoGetTag(replies)

SessionSaveConfig ==
    /\ nops < MaxOps
    /\ \E pages \in SessionMasks : DoSaveConfig(pages)

SessionEndConfig ==
    /\ nops < MaxOps
    /\ DoEndConfig

Next ==
    \/ SessionGetConfig
    \/ SessionSetInt
    \/ SessionSetBool
    \/ SessionSetChar
    \/ SessionGet
    \/ SessionGenerateConfig
    \/ SessionSetConfig
    \/ SessionGetDeviceInfo
    \/ SessionGetTag
    \/ SessionSaveConfig
    \/ SessionEndConfig

Spec == Init /\ [][Next]_vars

\* the operations of a Configuration
ConfigurationKinds == SetKinds \cup {"get", "generate_config", "set_config"}

\* C7: a field get, a field set (successful or rejected) and the dump make no
\* transport call: of the operations of a Configuration only set_config
\* sends, so what the device last received for a page stays as it is, and may
\* differ from the page in memory, until set_config is called.
C7_OnlySetConfigSends ==
    [][ /\ last'.kind \in ConfigurationKinds \ {"set_config"}
          => /\ log' = <<>>
             /\ received' = received
             /\ elapsed' = elapsed
        /\ (last'.kind \in ConfigurationKinds /\ received' # received)
          => last'.kind = "set_config" ]_vars

\* a page written back, then changed in memory only
C7_Witness ==
    /\ last.kind \in SetKinds
    /\ last.status = "ok"
    /\ log = <<>>
    /\ received[LastField.page].some
    /\ received[LastField.page].val # config.pages[LastField.page + 1]
    /\ received[LastField.page].val = before.pages[LastField.page + 1]

\* the 8-byte select frame of page i
SelectFrame(i) == <<128 + i, 0, 0, 0, 0, 0, 0, 0>>

\* C8: set_config(dev, pages) sends, for each selected page index i in the
\* order given, exactly two frames back to back: the select frame
\* [0x80|i, 0,0,0,0,0,0,0], then the 8 bytes page i holds now, mutations
\* included; it sends nothing for a page not selected, and without a
\* selection it handles pages 0, 1, 2 in that order.
C8_SetConfigSendsSelectThenPage ==
    (last.kind = "set_config" /\ last.status = "ok") =>
      LET sel == IF last.arg.some THEN last.arg.val ELSE <<0, 1, 2>>
      IN  /\ Len(log) = 2 * Len(sel)
          /\ \A n \in 1 .. Len(sel) :
               /\ log[2 * n - 1].call = "send_feature_report"
               /\ Payload(log[2 * n - 1]) = SelectFrame(sel[n])
               /\ log[2 * n].call = "send_feature_report"
               /\ Payload(log[2 * n]) = config.pages[sel[n] + 1]

\* pages 2 and 0 selected, in that order, page 2 holding a byte it did not
\* hold when it was read from the device
C8_Witness ==
    /\ last.kind = "set_config"
    /\ last.status = "ok"
    /\ last.arg = Some(<<2, 0>>)
    /\ Len(log) = 4
    /\ Payload(log[1]) = SelectFrame(2)
    /\ Payload(log[3]) = SelectFrame(0)
    /\ \A k \in 0 .. NumPatterns - 1 :
         Payload(log[2]) # PatternPages(k)[3].val

\* the 8-byte frame of a command byte alone
CommandFrame(c) == <<c, 0, 0, 0, 0, 0, 0, 0>>

\* C11: get_config() issues the read commands 0x80, 0x81, 0x82 in that
\* order, each as one write followed by one read, and returns a
\* Configuration whose three pages equal the three responses byte for byte;
\* if any of the three reads returns no data (an all-zero report) get_config
\* fails and no Configuration is returned.
C11_GetConfigReadsThreePagesInOrder ==
    last.kind = "get_config" =>
      /\ Len(log) = 6
      /\ \A n \in 1 .. 3 :
           /\ log[2 * n - 1].call = "send_feature_report"
           /\ Payload(log[2 * n - 1]) = CommandFrame(127 + n)
           /\ log[2 * n].call = "get_feature_report"
      /\ IF \A n \in 1 .. 3 : last.arg[n] # NULL_MSG
         THEN /\ last.status = "ok"
              /\ last.value = config
              /\ config.exists
              /\ Len(config.pages) = 3
              /\ \A n \in 1 .. 3 : config.pages[n] = last.arg[n]
         ELSE /\ last.status # "ok"
              /\ last.value = NoConfig
              /\ config = before

\* three pages that differ from each other, read into a Configuration
C11_Witness ==
    /\ last.kind = "get_config"
    /\ last.status = "ok"
    /\ config.pages[1] # config.pages[2]
    /\ config.pages[2] # config.pages[3]
    /\ config.pages[3] = last.arg[3]

\* the frame save_config sends for a page mask
SaveFrame(mask) == <<144, mask, 0, 0, 0, 0, 0, 0>>

\* C16: save_config(page_mask) sends exactly one frame
\* [0x90, page_mask, 0, 0, 0, 0, 0, 0] (page_mask 0x7 when none is given),
\* end_config() sends exactly the frame [0x90, 0, 0, 0, 0, 0, 0, 0], and
\* neither changes the pages of the Configuration in memory.
C16_SaveConfigSendsOneFrame ==
    /\ last.kind = "save_config" =>
         /\ last.status = "ok"
         /\ Len(log) = 1
         /\ log[1].call = "send_feature_report"
         /\ Payload(log[1])
              = SaveFrame(IF last.arg.some THEN last.arg.val ELSE 7)
         /\ config = before
    /\ last.kind = "end_config" =>
         /\ last.status = "ok"
         /\ Len(log) = 1
         /\ log[1].call = "send_feature_report"
         /\ Payload(log[1]) = SaveFrame(0)
         /\ config = before

\* end_config on a session whose Configuration was read and changed
C16_Witness ==
    /\ last.kind = "end_config"
    /\ config.exists
    /\ \A k \in 0 .. NumPatterns - 1 :
         config.pages # [p \in 1 .. 3 |-> PatternPages(k)[p].val]
    /\ Payload(log[1]) = SaveFrame(0)

\* the operations that ask the device for an answer
ReadingKinds == {"get_device_info", "get_config", "get_tag"}

\* the operations that only tell the device
WritingKinds == {"set_config", "save_config", "end_config"}

\* C17 as stated: every protocol operation is a strict write-then-read pair:
\* in get_device_info, get_config, set_config, save_config, end_config and
\* get_tag, each command frame sent is followed by a read of the feature
\* report before the next command frame is sent.
C17_EveryFrameIsFollowedByARead ==
    last.kind \in ReadingKinds \cup WritingKinds =>
      \A i \in 1 .. Len(log) :
        log[i].call = "send_feature_report"
        => /\ i < Len(log)
           /\ log[i + 1].call = "get_feature_report"

\* C17: get_device_info, get_config and get_tag are made of strict
\* write-then-read pairs: each command frame they send is followed by a read
\* of the feature report before the next command frame is sent; set_config,
\* save_config and end_config only write: they send their frames one after
\* the other and read no report.
C17_OnlyReadingOperationsPairWriteAndRead ==
    /\ last.kind \in ReadingKinds =>
         \A i \in 1 .. Len(log) :
           IF i % 2 = 1
           THEN /\ log[i].call = "send_feature_report"
                /\ i < Len(log)
           ELSE log[i].call = "get_feature_report"
    /\ last.kind \in WritingKinds =>
         \A i \in 1 .. Len(log) : log[i].call = "send_feature_report"

\* three pages written back, six frames in a row, to a device that was read
\* from before
C17_Witness ==
    /\ last.kind = "set_config"
    /\ last.status = "ok"
    /\ Len(log) = 6
    /\ \A i \in 1 .. 6 : log[i].call = "send_feature_report"
    /\ log[1].gap = SleepMs

----------------------------------------------------------------------------
(* The device-information specification: a DeviceInfo built from a          *)
(* response, and get_device_info against a device that answers with any of *)
(* the responses or with no data.                                          *)

\* the byte values a response is made of
InfoBytes == {0, 18, 255}

\* the byte the other positions hold while one position takes every value
InfoFill == 170

\* 8-byte responses: every mix of InfoBytes, and every value at each position
InfoReports ==
    {<<b0, b1, b2, b3, b4, b5, b6, b7>> :
        b0 \in InfoBytes, b1 \in InfoBytes, b2 \in InfoBytes, b3 \in InfoBytes,
        b4 \in InfoBytes, b5 \in InfoBytes, b6 \in InfoBytes, b7 \in InfoBytes}
    \cup {[i \in 1 .. 8 |-> IF i = j THEN b ELSE InfoFill] :
            j \in 1 .. 8, b \in Byte}

\* DeviceInfo(msg)
DoDeviceInfo(msg) ==
    LET d == DeviceInfoInit(Some(msg))
    IN  /\ last' = [kind |-> "DeviceInfo", field |-> "", arg |-> msg,
                    status |-> d.status, value |-> d.value]
        /\ before' = config
        /\ log' = <<>>
        /\ nops' = nops + 1
        /\ UNCHANGED <<config, received, elapsed>>

InfoInit == NoSession

InfoConstruct ==
    /\ nops = 0
    /\ \E msg \in InfoReports : DoDeviceInfo(msg)

InfoGetDeviceInfo ==
    /\ nops = 0
    /\ \E reply \in InfoReports \cup {<<>>} : DoGetDeviceInfo(reply)

InfoNext == InfoConstruct \/ InfoGetDeviceInfo

SpecInfo == InfoInit /\ [][InfoNext]_vars

C19_DeviceInfoDecodesResponse ==
    /\ (last.kind = "DeviceInfo" /\ Len(last.arg) = 8)
       => /\ last.status = "ok"
          /\ last.value.some
          /\ last.value.val.firmware_version_tuple
               = <<last.arg[4], last.arg[3] \div 16, last.arg[3] % 16>>
          /\ last.value.val.device_type = last.arg[6] + 256 * last.arg[7]
    /\ (last.kind = "get_device_info" /\ last.status = "ok")
       => /\ last.value.val.firmware_version_tuple
               = <<last.arg[4], last.arg[3] \div 16, last.arg[3] % 16>>
          /\ last.value.val.device_type = last.arg[6] + 256 * last.arg[7]

\* firmware 18.1.2 on a device of type 0x12ff
C19_Witness ==
    /\ last.kind = "DeviceInfo"
    /\ last.arg = <<255, 0, 18, 18, 255, 255, 18, 0>>
    /\ last.value.val.firmware_version_tuple = <<18, 1, 2>>
    /\ last.value.val.device_type = 4863

----------------------------------------------------------------------------
(* The tag specification: get_tag against a device that answers the card   *)
(* data command and the card info command with data or with none, the info *)
(* response reporting every bit length with reserved bytes zero or not.    *)

\* what the device answers to 0x8f
TagTriggers ==
    {<<>>, NULL_MSG, <<0, 0, 0, 0, 0, 0, 0, 128>>}
    \cup {[i \in 1 .. 8 |-> PatternByte(k, 0, i - 1)] :
            k \in 1 .. NumPatterns - 1}

\* the bytes 1..7 of what the device answers to 0x8e
TagReserved ==
    {<<0, 0, 0, 0, 0, 0, 0>>, <<0, 0, 0, 0, 0, 0, 1>>,
     <<255, 255, 255, 255, 255, 255, 255>>}

\* what the device answers to 0x8e
TagInfos ==
    {<<>>} \cup {<<bit_length>> \o reserved :
                   bit_length \in Byte, reserved \in TagReserved}

TagInit == NoSession

TagGetTag ==
    /\ nops = 0
    /\ \E trigger \in TagTriggers : \E info \in TagInfos :
         DoGetTag(<<trigger, info>>)

TagNext == TagGetTag

SpecTag == TagInit /\ [][TagNext]_vars

\* the device answered the call's n-th command with data
Answered(n) == ReadResult(last.arg[n]).some

\* C13: get_tag() always sends 0x8F before 0x8E; if the response to 0x8F is
\* absent it returns absent and 0x8E is never sent; if the response to 0x8F
\* is present but the response to 0x8E is absent it returns absent.
C13_GetTagAsksDataThenInfo ==
    last.kind = "get_tag" =>
      /\ Len(log) >= 2
      /\ log[1].call = "send_feature_report"
      /\ Payload(log[1]) = CommandFrame(143)
      /\ log[2].call = "get_feature_report"
      /\ ~Answered(1)
         => /\ last.status = "ok"
            /\ last.value = None
            /\ Len(log) = 2
      /\ Answered(1)
         => /\ Len(log) = 4
            /\ log[3].call = "send_feature_report"
            /\ Payload(log[3]) = CommandFrame(142)
            /\ log[4].call = "get_feature_report"
      /\ (Answered(1) /\ ~Answered(2))
         => /\ last.status = "ok"
            /\ last.value = None

\* card data came, card info did not
C13_Witness ==
    /\ last.kind = "get_tag"
    /\ Answered(1)
    /\ last.arg[2] = NULL_MSG
    /\ last.value = None
    /\ Len(log) = 4

\* the least number of bytes that hold n bits
BytesFor(n) == IF n % 8 = 0 THEN n \div 8 ELSE n \div 8 + 1

\* C14 as stated: when both responses are present get_tag() returns
\* (data, bit_length) where bit_length is byte 0 of the 0x8E response and
\* data is the 0x8F response truncated to exactly ceil(bit_length / 8) bytes,
\* for every reported bit_length in 0..255.
C14_DataIsExactlyCeilBytes ==
    (last.kind = "get_tag" /\ Answered(1) /\ Answered(2)) =>
      /\ last.status = "ok"
      /\ last.value.some
      /\ last.value.val.bit_length = last.arg[2][1]
      /\ Len(last.value.val.data) = BytesFor(last.arg[2][1])
      /\ \A i \in 1 .. Len(last.value.val.data) :
           last.value.val.data[i] = last.arg[1][i]

\* C14: when both responses are present get_tag() returns (data, bit_length)
\* where bit_length is byte 0 of the 0x8E response and data is the first
\* ceil(bit_length / 8) bytes of the 8-byte 0x8F response, all 8 of them when
\* bit_length is above 64.
C14_DataIsCeilBytesUpToEight ==
    (last.kind = "get_tag" /\ Answered(1) /\ Answered(2)) =>
      /\ last.status = "ok"
      /\ last.value.some
      /\ last.value.val.bit_length = last.arg[2][1]
      /\ Len(last.value.val.data)
           = (IF last.arg[2][1] > 64 THEN 8 ELSE BytesFor(last.arg[2][1]))
      /\ \A i \in 1 .. Len(last.value.val.data) :
           last.value.val.data[i] = last.arg[1][i]

\* a card of 65 bits, of which the 64 the response holds are returned
C14_Witness ==
    /\ last.kind = "get_tag"
    /\ Answered(2)
    /\ last.arg[2][1] = 65
    /\ last.value.some
    /\ last.value.val.bit_length = 65
    /\ last.value.val.data = last.arg[1]
    /\ last.arg[1][8] # 0

\* C15 as stated: whenever the 0x8F response is present and the 0x8E response
\* reports bit_length = 0, get_tag() returns a present result (empty data, 0)
\* and not absent, whatever the reserved bytes of the 0x8E response are.
C15_ZeroBitsIsPresent ==
    (last.kind = "get_tag" /\ Answered(1)
     /\ Len(last.arg[2]) = 8 /\ last.arg[2][1] = 0)
    => last.value = Some([data |-> <<>>, bit_length |-> 0])

\* C15: whenever the 0x8F response is present and the 0x8E response reports
\* bit_length = 0 with a reserved byte that is not zero, get_tag() returns a
\* present result (empty data, 0); a 0x8E response of bit_length 0 whose
\* reserved bytes are all zero is read as no data and get_tag() returns
\* absent.
C15_ZeroBitsIsPresentUnlessAllZero ==
    (last.kind = "get_tag" /\ Answered(1)
     /\ Len(last.arg[2]) = 8 /\ last.arg[2][1] = 0)
    => IF \E i \in 2 .. 8 : last.arg[2][i] # 0
       THEN last.value = Some([data |-> <<>>, bit_length |-> 0])
       ELSE last.value = None

\* zero bits reported in a response whose last reserved byte is 1
C15_Witness ==
    /\ last.kind = "get_tag"
    /\ Answered(1)
    /\ last.arg[2] = <<0, 0, 0, 0, 0, 0, 0, 1>>
    /\ last.value.some
    /\ last.value.val.data = <<>>

----------------------------------------------------------------------------
(* The fault specification: one engine operation on a fresh engine and     *)
(* Configuration, during which the n-th call on the transport raises, for  *)
(* n up to MaxFail (an operation that makes fewer calls runs to its end).  *)

\* the state after an operation whose n-th transport call raises
FaultStep(kind, n, arg, r) == EngineStep(kind, [fail |-> n, arg |-> arg], r)

\* the messages written while the transport may raise
FaultMessages ==
    {[i \in 1 .. len |-> PatternByte(2, 0, i - 1)] : len \in {0, 1, 8, 9}}

\* the reports the device answers with while the transport may raise
FaultReports == {NULL_MSG, PatternPages(2)[1].val}

FaultInit == \E k \in 0 .. NumPatterns - 1 : Fresh(PatternPages(k))

FaultWrite ==
    /\ nops = 0
    /\ \E n \in 1 .. MaxFail : \E msg \in FaultMessages :
         /\ FaultStep("write", n, msg,
                      [t |-> Write(StartFailing(n), msg), value |-> None])
         /\ UNCHANGED <<config, received>>

FaultRead ==
    /\ nops = 0
    /\ \E n \in 1 .. MaxFail : \E reply \in FaultReports :
         /\ FaultStep("read", n, reply, Read(StartFailing(n), reply))
         /\ UNCHANGED <<config, received>>

FaultInteract ==
    /\ nops = 0
    /\ \E n \in 1 .. MaxFail : \E msg \in FaultMessages :
         \E reply \in FaultReports :
           /\ FaultStep("interact", n, [msg |-> msg, reply |-> reply],
                        Interact(StartFailing(n), msg, reply))
           /\ UNCHANGED <<config, received>>

FaultGetDeviceInfo ==
    /\ nops = 0
    /\ \E n \in 1 .. MaxFail : \E reply \in FaultReports :
         /\ FaultStep("get_device_info", n, reply,
                      GetDeviceInfo(StartFailing(n), reply))
         /\ UNCHANGED <<config, received>>

FaultGetConfig ==
    /\ nops = 0
    /\ \E n \in 1 .. MaxFail : \E k \in 0 .. NumPatterns - 1 :
         \E z \in 0 .. 3 :
           LET r == GetConfig(StartFailing(n), DeviceReplies(k, z))
           IN  /\ FaultStep("get_config", n, DeviceReplies(k, z), r)
               /\ config' = IF r.t.status = "ok" THEN r.value ELSE config
               /\ UNCHANGED received

FaultSetConfig ==
    /\ nops = 0
    /\ \E n \in 1 .. MaxFail : \E sel \in Selections :
         LET r == SetConfig(config.pages,
                            [t |-> StartFailing(n), received |-> received],
                            sel)
         IN  /\ FaultStep("set_config", n, sel, [t |-> r.t, value |-> None])
             /\ received' = r.received
             /\ UNCHANGED config

FaultSaveConfig ==
    /\ nops = 0
    /\ \E n \in 1 .. MaxFail : \E pages \in SessionMasks :
         /\ FaultStep("save_config", n, pages,
                      [t |-> SaveConfig(StartFailing(n), pages),
                       value |-> None])
         /\ UNCHANGED <<config, received>>

FaultEndConfig ==
    /\ nops = 0
    /\ \E n \in 1 .. MaxFail :
         /\ FaultStep("end_config", n, None,
                      [t |-> EndConfig(StartFailing(n)), value |-> None])
         /\ UNCHANGED <<config, received>>

FaultGetTag ==
    /\ nops = 0
    /\ \E n \in 1 .. MaxFail : \E replies \in SessionTagReplies :
         /\ FaultStep("get_tag", n, replies,
                      GetTag(StartFailing(n), replies))
         /\ UNCHANGED <<config, received>>

FaultNext ==
    \/ FaultWrite
    \/ FaultRead
    \/ FaultInteract
    \/ FaultGetDeviceInfo
    \/ FaultGetConfig
    \/ FaultSetConfig
    \/ FaultSaveConfig
    \/ FaultEndConfig
    \/ FaultGetTag

SpecFault == FaultInit /\ [][FaultNext]_vars

\* a frame sent and a report taken, as entries of a call sequence
Sent(payload) == [call |-> "send_feature_report", payload |-> payload]
Taken == [call |-> "get_feature_report", payload |-> <<>>]

\* msg followed by zero bytes up to 8 bytes
Padded(msg) == [i \in 1 .. 8 |-> IF i <= Len(msg) THEN msg[i] ELSE 0]

\* the transport calls an operation makes, in order, when none of them raises
Calls(kind, arg) ==
    CASE kind = "write" ->
           IF Len(arg) > 8 THEN <<>> ELSE <<Sent(Padded(arg))>>
      [] kind = "read" -> <<Taken>>
      [] kind = "interact" ->
           IF Len(arg.msg) > 8 THEN <<>>
           ELSE <<Sent(Padded(arg.msg)), Taken>>
      [] kind = "get_device_info" -> <<Sent(CommandFrame(138)), Taken>>
      [] kind = "get_config" ->
           <<Sent(CommandFrame(128)), Taken, Sent(CommandFrame(129)), Taken,
             Sent(CommandFrame(130)), Taken>>
      [] kind = "set_config" ->
           LET sel == IF arg.some THEN arg.val ELSE <<0, 1, 2>>
           IN  [j \in 1 .. 2 * Len(sel) |->
                  IF j % 2 = 1 THEN Sent(SelectFrame(sel[(j + 1) \div 2]))
                  ELSE Sent(before.pages[sel[j \div 2] + 1])]
      [] kind = "save_config" ->
           <<Sent(SaveFrame(IF arg.some THEN arg.val ELSE 7))>>
      [] kind = "end_config" -> <<Sent(SaveFrame(0))>>
      [] kind = "get_tag" ->
           IF arg[1] = NULL_MSG THEN <<Sent(CommandFrame(143)), Taken>>
           ELSE <<Sent(CommandFrame(143)), Taken,
                  Sent(CommandFrame(142)), Taken>>

\* C18: no retry: when the transport raises during an engine operation the
\* error reaches the caller, the call that raised is the operation's last
\* transport call and nothing is sent again; a set_config that fails at a
\* frame of its k-th selected page leaves the frames before it sent (no
\* rollback) and sends no frame after it.
C18_TransportErrorEndsOperation ==
    last.kind # "none" =>
      LET n     == last.arg.fail
          calls == Calls(last.kind, last.arg.arg)
      IN  /\ Len(log) = Min(n, Len(calls))
          /\ \A i \in 1 .. Len(log) :
               /\ log[i].call = calls[i].call
               /\ log[i].call = "send_feature_report"
                  => Payload(log[i]) = calls[i].payload
          /\ n <= Len(calls)
             => /\ last.status = "OSError"
                /\ last.value \in {None, NoConfig}
                /\ config = before
          /\ n > Len(calls) => last.status # "OSError"
          /\ last.kind = "set_config"
             => LET sel == IF last.arg.arg.some THEN last.arg.arg.val
                           ELSE <<0, 1, 2>>
                IN  \A p \in 0 .. 2 :
                      received[p]
                        = (IF \E m \in 1 .. Len(sel) : sel[m] = p /\ 2 * m < n
                           THEN Some(config.pages[p + 1]) ELSE None)

\* set_config of all pages failing at the select frame of page 1: page 0
\* stays sent, pages 1 and 2 are not sent
C18_Witness ==
    /\ last.kind = "set_config"
    /\ last.arg.arg = None
    /\ last.arg.fail = 3
    /\ last.status = "OSError"
    /\ Len(log) = 3
    /\ received[0] = Some(config.pages[1])
    /\ received[1] = None
    /\ received[2] = None

----------------------------------------------------------------------------
(* configure.py: main, run from a fresh process against a device that      *)
(* answers the description and page reads with data or with none, for      *)
(* every choice of the three option lists (each None or a list of up to    *)
(* MaxOptions entries) and of write_eeprom.                                *)

\* hasattr(config, name)
HasAttr(name) ==
    name \in FieldNames
             \cup {"pages", "generate_config", "print_config", "set_config"}

\* setattr(config, name, v), v an int (True is 1, False is 0); a name that is
\* no property becomes an attribute of the object and changes no page
SetAttr(name, v, pages) ==
    IF name \notin FieldNames THEN Ok(pages, 0)
    ELSE CASE Fields[name].kind = "int" -> IntSetter(Fields[name], pages, v)
           [] Fields[name].kind = "bool" ->
                BoolSetter(Fields[name], pages, v # 0)
           [] OTHER -> CharSetter(Fields[name], pages, PyInt(v))

\* the loops over set_true and set_false: o is the loop variable, which
\* stays bound after the loop
RECURSIVE ApplyFlags(_, _, _)
ApplyFlags(st, opts, flag) ==
    IF opts = <<>> \/ st.status # "ok" THEN st
    ELSE LET o == Head(opts)
         IN  IF ~HasAttr(o)
             THEN [st EXCEPT !.status = "TypeError", !.o = Some(o)]
             ELSE LET r == SetAttr(o, flag, st.pages)
                  IN  ApplyFlags([status |-> r.status, pages |-> r.pages,
                                  o |-> Some(o)],
                                 Tail(opts), flag)

\* the loop over set_int, whose check reads o and not its own k
RECURSIVE ApplyInts(_, _)
ApplyInts(st, opts) ==
    IF opts = <<>> \/ st.status # "ok" THEN st
    ELSE LET k == Head(opts)[1]
             v == Head(opts)[2]
         IN  IF ~st.o.some THEN [st EXCEPT !.status = "UnboundLocalError"]
             ELSE IF ~HasAttr(st.o.val)
             THEN [st EXCEPT !.status = "TypeError"]
             ELSE LET r == SetAttr(k, v, st.pages)
                  IN  ApplyInts([status |-> r.status, pages |-> r.pages,
                                 o |-> st.o],
                                Tail(opts))

\* the three loops of main over the pages read from the device
ApplyOptions(a, pages) ==
    LET s0 == [status |-> "ok", pages |-> pages, o |-> None]
        s1 == IF a.set_true.some THEN ApplyFlags(s0, a.set_true.val, 1)
              ELSE s0
        s2 == IF a.set_false.some THEN ApplyFlags(s1, a.set_false.val, 0)
              ELSE s1
    IN  IF a.set_int.some THEN ApplyInts(s2, a.set_int.val) ELSE s2

\* main returns, or raises t.status, holding the Configuration held
MainEnds(a, t, held, rc) ==
    /\ EngineStep("main", a, [t |-> t, value |-> None])
    /\ config' = held
    /\ received' = rc

\* main(set_true, set_false, set_int, write_eeprom), the device answering
\* a.info to 0x8a and a.replies to the page reads; what each call returns is
\* bound once, in the order of the calls
Main(a) ==
    \E info \in {GetDeviceInfo(Start, a.info)} :
      IF info.t.status # "ok" THEN MainEnds(a, info.t, NoConfig, received)
      ELSE
      \E cfg \in {GetConfig(info.t, a.replies)} :
        IF cfg.t.status # "ok" THEN MainEnds(a, cfg.t, NoConfig, received)
        ELSE
        \E s \in {ApplyOptions(a, cfg.value.pages)} :
          LET held == [exists |-> TRUE, pages |-> s.pages]
              dump == GenerateConfig(s.pages)
          IN  IF s.status # "ok"
              THEN MainEnds(a, [cfg.t EXCEPT !.status = s.status], held,
                            received)
              ELSE IF dump.status # "ok"
              THEN MainEnds(a, [cfg.t EXCEPT !.status = dump.status], held,
                            received)
              ELSE IF a.set_true.some \/ a.set_false.some \/ a.set_int.some
              THEN \E wb \in {SetConfig(s.pages,
                                        [t |-> cfg.t, received |-> received],
                                        None)} :
                     \E fin \in {IF a.write_eeprom
                                 THEN SaveConfig(wb.t, Some(7))
                                 ELSE EndConfig(wb.t)} :
                       MainEnds(a, fin, held, wb.received)
              ELSE MainEnds(a, cfg.t, held, received)

\* the flags named with -t and -f
OptionFlags == {"bHaltKBSnd", "bUse64Bit"}

\* the settings given with -i
OptionInts == {<<"iIDBitCnt", 26>>, <<"iBitStrmTO", 20>>}

\* an option list: not supplied, or up to MaxOptions entries
OptionLists(S) == {None} \cup {Some(q) : q \in SeqsUpTo(S, MaxOptions)}

ConfigureInit == NoSession

ConfigureMain ==
    /\ nops = 0
    /\ \E set_true \in OptionLists(OptionFlags) :
         \E set_false \in OptionLists(OptionFlags) :
           \E set_int \in OptionLists(OptionInts) :
             \E write_eeprom \in BOOLEAN :
               \E info \in SessionInfoReplies :
                 \E k \in 0 .. NumPatterns - 1 :
                   Main([set_true |-> set_true, set_false |-> set_false,
                         set_int |-> set_int, write_eeprom |-> write_eeprom,
                         info |-> info, replies |-> DeviceReplies(k, 0)])

ConfigureNext == ConfigureMain

SpecConfigure == ConfigureInit /\ [][ConfigureNext]_vars

\* the members of an option list, none if it was not supplied
Named(opt) == IF opt.some THEN {opt.val[i] : i \in 1 .. Len(opt.val)} ELSE {}

\* C20: the configure tool's main follows the session order for every
\* combination of its three option lists (each possibly not supplied) that
\* names only existing fields with in-range values, on a device that answers:
\* it sends 0x8A, then reads pages 0x80, 0x81, 0x82; if at least one list is
\* supplied it applies the mutations, flushes all three pages with
\* set_config and then sends exactly one 0x90 frame, with mask 0x7 if
\* write_eeprom is set and mask 0 otherwise; if no list is supplied it sends
\* no write-back frame and no 0x90 frame.
C20_ConfigureFollowsSessionOrder ==
    (/\ last.kind = "main"
     /\ last.arg.info # NULL_MSG
     /\ \A p \in 1 .. 3 : last.arg.replies[p] # NULL_MSG)
    => /\ last.status = "ok"
       /\ Len(log) >= 8
       /\ Payload(log[1]) = CommandFrame(138)
       /\ \A n \in 1 .. 3 : Payload(log[2 * n + 1]) = CommandFrame(127 + n)
       /\ \A n \in 1 .. 4 :
            /\ log[2 * n - 1].call = "send_feature_report"
            /\ log[2 * n].call = "get_feature_report"
       /\ IF last.arg.set_true.some \/ last.arg.set_false.some
             \/ last.arg.set_int.some
          THEN /\ \A name \in Named(last.arg.set_false) :
                    GetAttr(name, config.pages).value = FALSE
               /\ \A name \in Named(last.arg.set_true)
                                \ Named(last.arg.set_false) :
                    GetAttr(name, config.pages).value = TRUE
               /\ \A kv \in Named(last.arg.set_int) :
                    GetAttr(kv[1], config.pages).value = kv[2]
               /\ Len(log) = 15
               /\ \A i \in 9 .. 15 : log[i].call = "send_feature_report"
               /\ \A n \in 1 .. 3 :
                    /\ Payload(log[7 + 2 * n]) = SelectFrame(n - 1)
                    /\ Payload(log[8 + 2 * n]) = config.pages[n]
               /\ Payload(log[15])
                    = SaveFrame(IF last.arg.write_eeprom THEN 7 ELSE 0)
          ELSE Len(log) = 8

----------------------------------------------------------------------------
(* usbtest.py: main, run from a fresh process as a sequence of steps: the  *)
(* set-up, each round of the wait for a card, each round of the light show *)
(* and the wrap-up.  While main runs, last.field is the part of main that  *)
(* comes next, last.arg holds its variables x and found_card, and log      *)
(* holds the transport calls of the step just made.                        *)

\* for x in range(40), the wait for a card
ScanRounds == 40

\* for x in range(20), the light show
ShowRounds == 20

\* config.<name> = v for a flag; the pages are those get_config returned, so
\* the assignment cannot fail
Assign(pages, name, v) == BoolSetter(Fields[name], pages, v).pages

\* the state after a step of main that ran as t and goes on at pc; a step
\* that raised ends main
UsbStep(pc, x, found_card, t, value, pages, rc) ==
    /\ last' = [kind |-> "usbtest",
                field |-> IF t.status = "ok" THEN pc ELSE "raised",
                arg |-> [x |-> x, found_card |-> found_card],
                status |-> t.status, value |-> value]
    /\ log' = t.log
    /\ elapsed' = t.elapsed
    /\ before' = config
    /\ config' = IF pages = <<>> THEN NoConfig
                 ELSE [exists |-> TRUE, pages |-> pages]
    /\ received' = rc
    /\ nops' = nops + 1

\* main up to the loop that waits for a card
UsbSetUp(info, replies) ==
    \E i \in {GetDeviceInfo(Start, info)} :
      IF i.t.status # "ok"
      THEN UsbStep("raised", 0, FALSE, i.t, None, <<>>, received)
      ELSE
      \E cfg \in {GetConfig(i.t, replies)} :
        IF cfg.t.status # "ok"
        THEN UsbStep("raised", 0, FALSE, cfg.t, None, <<>>, received)
        ELSE
        LET dump == GenerateConfig(cfg.value.pages)
            p1 == Assign(cfg.value.pages, "bHaltKBSnd", TRUE)
            p2 == Assign(p1, "iRedLEDState", FALSE)
            p3 == Assign(p2, "iGrnLEDState", TRUE)
            p4 == Assign(p3, "bAppCtrlsLED", TRUE)
        IN  IF dump.status # "ok"
            THEN UsbStep("raised", 0, FALSE,
                         [cfg.t EXCEPT !.status = dump.status], None,
                         cfg.value.pages, received)
            ELSE
            \E wb \in {SetConfig(p4, [t |-> cfg.t, received |-> received],
                                 None)} :
              \E e \in {Sleep(EndConfig(wb.t), 500)} :
                UsbStep("scan", 0, FALSE, e, None,
                        Assign(p4, "iGrnLEDState", FALSE), wb.received)

\* one round of the wait for a card, the device answering replies to get_tag
UsbScan(replies) ==
    LET x  == last.arg.x
        p1 == Assign(config.pages, "iRedLEDState", x % 6 \in {0, 2})
    IN  \E wb \in {SetConfig(p1, [t |-> Start, received |-> received],
                             Some(<<2>>))} :
          \E tag \in {GetTag(EndConfig(wb.t), replies)} :
            IF tag.t.status = "ok" /\ tag.value.some
            THEN LET p2 == Assign(p1, "iRedLEDState", FALSE)
                 IN  \E wb2 \in {SetConfig(p2, [t |-> tag.t,
                                                received |-> wb.received],
                                           Some(<<2>>))} :
                       UsbStep("show", 0, TRUE, EndConfig(wb2.t), tag.value,
                               p2, wb2.received)
            ELSE UsbStep(IF x + 1 < ScanRounds THEN "scan" ELSE "wrap_up",
                         IF x + 1 < ScanRounds THEN x + 1 ELSE 0, FALSE,
                         Sleep(tag.t, 200), None, p1, wb.received)

\* one round of the light show
UsbShow ==
    LET x  == last.arg.x
        p1 == Assign(config.pages, "iGrnLEDState", BitAnd(x, 1) = 0)
        p2 == Assign(p1, "iRedLEDState", BitAnd(x, 2) > 0)
    IN  \E wb \in {SetConfig(p2, [t |-> Start, received |-> received],
                             Some(<<2>>))} :
          UsbStep(IF x + 1 < ShowRounds THEN "show" ELSE "wrap_up",
                  IF x + 1 < ShowRounds THEN x + 1 ELSE 0, TRUE,
                  Sleep(EndConfig(wb.t), 100), None, p2, wb.received)

\* main from the comment "Re-enable sending keystrokes" to its end
UsbWrapUp ==
    LET p1 == Assign(config.pages, "bHaltKBSnd", TRUE)
        p2 == Assign(p1, "iRedLEDState", FALSE)
        p3 == Assign(p2, "iGrnLEDState", FALSE)
        p4 == Assign(p3, "bAppCtrlsLED", FALSE)
    IN  \E wb \in {SetConfig(p4, [t |-> Start, received |-> received],
                             None)} :
          UsbStep("done", 0, last.arg.found_card, EndConfig(wb.t), None, p4,
                  wb.received)

\* main has reached pc
At(pc) == last.kind = "usbtest" /\ last.field = pc

UsbInit == NoSession

UsbTestSetUp ==
    /\ last.kind = "none"
    /\ \E info \in SessionInfoReplies : \E k \in 0 .. NumPatterns - 1 :
         UsbSetUp(info, DeviceReplies(k, 0))

UsbTestScan ==
    /\ At("scan")
    /\ \E replies \in SessionTagReplies : UsbScan(replies)

UsbTestShow == At("show") /\ UsbShow

UsbTestWrapUp == At("wrap_up") /\ UsbWrapUp

UsbNext == UsbTestSetUp \/ UsbTestScan \/ UsbTestShow \/ UsbTestWrapUp

SpecUsbTest == UsbInit /\ [][UsbNext]_vars

\* the pages the device holds: for each page the frame it last received
Flushed == [p \in 1 .. 3 |-> received[p - 1].val]

\* C21: when usbtest's main completes, whether or not a card was found, the
\* last configuration it flushed to the device has keystroke sending
\* re-enabled (bHaltKBSnd false) and the LEDs back under reader control
\* (bAppCtrlsLED, iRedLEDState and iGrnLEDState all false), and that flush is
\* followed by end_config and by no save to EEPROM.
C21_UsbTestLeavesReaderAsFound ==
    At("done") =>
      /\ \A p \in 0 .. 2 : received[p].some
      /\ GetAttr("bHaltKBSnd", Flushed).value = FALSE
      /\ GetAttr("bAppCtrlsLED", Flushed).value = FALSE
      /\ GetAttr("iRedLEDState", Flushed).value = FALSE
      /\ GetAttr("iGrnLEDState", Flushed).value = FALSE
      /\ Len(log) = 7
      /\ \A n \in 1 .. 3 :
           /\ Payload(log[2 * n - 1]) = SelectFrame(n - 1)
           /\ Payload(log[2 * n]) = Flushed[n]
      /\ Payload(log[7]) = SaveFrame(0)

----------------------------------------------------------------------------
(* The fields of Configuration against each other *)

\* C22: no two fields declared on Configuration occupy a common bit of the
\* same byte of the same page, so for any page contents a successful set on
\* one field never changes the value get returns for any other field.
C22_FieldsDoNotOverlap ==
    /\ \A a \in FieldNames : \A b \in FieldNames \ {a} :
         (Fields[a].page = Fields[b].page /\ Fields[a].pos = Fields[b].pos)
         => FieldBits(Fields[a]) \cap FieldBits(Fields[b]) = {}
    /\ (last.kind \in SetKinds /\ last.status = "ok")
       => \A other \in FieldNames \ {last.field} :
            /\ GetAttr(other, config.pages).status = "ok"
            /\ GetAttr(other, config.pages).value
                 = GetAttr(other, before.pages).value

\* iLeadParityBitCnt changed in the byte it shares with iTrailParityBitCnt,
\* which reads the same non-zero value as before
C22_Witness ==
    /\ last.kind = "set_int"
    /\ last.field = "iLeadParityBitCnt"
    /\ last.status = "ok"
    /\ GetAttr("iLeadParityBitCnt", config.pages).value
         # GetAttr("iLeadParityBitCnt", before.pages).value
    /\ GetAttr("iTrailParityBitCnt", config.pages).value # 0
    /\ GetAttr("iTrailParityBitCnt", config.pages).value
         = GetAttr("iTrailParityBitCnt", before.pages).value

====
